---------------------------- MODULE Spec2Model ----------------------------
(***************************************************************************)
(* State-machine model of the two ChatbotScreen components of              *)
(* src/unnamed/part_002 (variant "A": lines 1-488, variant "B": lines      *)
(* 489-1124).  One React component instance is modelled: its useState      *)
(* cells are the variables, every event handler, timer callback and        *)
(* promise continuation is one action.                                     *)
(*                                                                         *)
(* Strings are sequences of one-character strings, so that trim, split,    *)
(* includes and parseInt are computed the way the JavaScript does.         *)
(***************************************************************************)
EXTENDS Integers, Sequences, FiniteSets, TLC

(***************************************************************************)
(* Bounds of the exploration (not program constants).  A behaviour is      *)
(* explored under one scenario, fixed at the start, that says which of     *)
(* these the user and the clock may do in it.                              *)
(***************************************************************************)
MaxResets == 1      \* how many times Start Over is clicked
MaxEdits == 1       \* how many edit sessions are opened (Edit button clicks)
MaxCollisions == 1  \* how many times two steps read the same Date.now()
MaxEarly == 1       \* how many answers are sent before their question is shown

Scenario(resets, editSessions, earlyAnswers, sameStamps) ==
    [resets |-> resets, edits |-> editSessions, early |-> earlyAnswers,
     collisions |-> sameStamps, probe |-> {}, bodies |-> {}]

\* the scenarios of Spec
OnlyResets == Scenario(MaxResets, 0, 0, 0)

OnlyEdits == Scenario(0, MaxEdits, 0, 0)

OnlyEarly == Scenario(0, 0, MaxEarly, 0)

\* the scenarios of SpecRaces
ResetsAndEarly == Scenario(MaxResets, 0, MaxEarly, 0)

SameStamps == Scenario(0, MaxEdits, MaxEarly, MaxCollisions)

(***************************************************************************)
(* JavaScript string helpers                                               *)
(***************************************************************************)
Digits == {"0", "1", "2", "3", "4", "5", "6", "7", "8", "9"}

DigitVal(c) ==
    CASE c = "0" -> 0 [] c = "1" -> 1 [] c = "2" -> 2 [] c = "3" -> 3
      [] c = "4" -> 4 [] c = "5" -> 5 [] c = "6" -> 6 [] c = "7" -> 7
      [] c = "8" -> 8 [] c = "9" -> 9

\* the characters String.prototype.trim and parseInt treat as white space
IsSpace(c) == c = " "

RECURSIVE TrimStart(_)
TrimStart(s) ==
    IF s # <<>> /\ IsSpace(Head(s)) THEN TrimStart(Tail(s)) ELSE s

RECURSIVE TrimEnd(_)
TrimEnd(s) ==
    IF s # <<>> /\ IsSpace(s[Len(s)]) THEN TrimEnd(SubSeq(s, 1, Len(s) - 1)) ELSE s

\* String.prototype.trim
Trim(s) == TrimEnd(TrimStart(s))

\* String.prototype.includes for a one-character needle
StrIncludes(s, c) == \E i \in 1..Len(s) : s[i] = c

\* Array.prototype.includes
ArrIncludes(arr, x) == \E i \in 1..Len(arr) : arr[i] = x

\* String.prototype.split for a one-character separator: the list of the
\* pieces between separators ("" splits to [""])
RECURSIVE SplitFrom(_, _, _)
SplitFrom(s, c, cur) ==
    IF s = <<>> THEN <<cur>>
    ELSE IF Head(s) = c THEN <<cur>> \o SplitFrom(Tail(s), c, <<>>)
    ELSE SplitFrom(Tail(s), c, Append(cur, Head(s)))

Split(s, c) == SplitFrom(s, c, <<>>)

\* Array.prototype.map(skill => skill.trim())
RECURSIVE MapTrim(_)
MapTrim(arr) ==
    IF arr = <<>> THEN <<>> ELSE <<Trim(Head(arr))>> \o MapTrim(Tail(arr))

\* Array.prototype.filter(Boolean) on strings: the empty string is falsy
RECURSIVE FilterBoolean(_)
FilterBoolean(arr) ==
    IF arr = <<>> THEN <<>>
    ELSE IF Head(arr) = <<>> THEN FilterBoolean(Tail(arr))
    ELSE <<Head(arr)>> \o FilterBoolean(Tail(arr))

\* parseInt yields NaN when no digit follows the optional sign; NaN is a value
\* outside every range the program compares against
NaN == -1000000

IsNaN(n) == n = NaN

RECURSIVE DigitPrefix(_, _)
DigitPrefix(s, acc) ==
    IF s # <<>> /\ Head(s) \in Digits
    THEN DigitPrefix(Tail(s), 10 * acc + DigitVal(Head(s)))
    ELSE acc

\* parseInt(string) in radix 10: leading white space is skipped, an optional
\* sign is read, then the longest prefix of digits; what follows is ignored
ParseInt(str) ==
    LET s == TrimStart(str)
        neg == s # <<>> /\ Head(s) = "-"
        body == IF s # <<>> /\ Head(s) \in {"-", "+"} THEN Tail(s) ELSE s
    IN  IF body = <<>> \/ Head(body) \notin Digits THEN NaN
        ELSE IF neg THEN 0 - DigitPrefix(body, 0) ELSE DigitPrefix(body, 0)

(***************************************************************************)
(* Program constants                                                       *)
(***************************************************************************)
Variants == {"A", "B"}

\* the prompts, abbreviated to "Q<index>" (their wording is never inspected)
questionsA == << <<"Q", "0">>, <<"Q", "1">>, <<"Q", "2">>, <<"Q", "3">>, <<"Q", "4">> >>

questionsB ==
    << <<"Q", "0">>, <<"Q", "1">>, <<"Q", "2">>, <<"Q", "3">>, <<"Q", "4">>,
       <<"Q", "5">>, <<"Q", "6">> >>

tNone == <<"N", "o", "n", "e">>

tBeginner == <<"B", "e", "g", "i", "n", "n", "e", "r">>

tIntermediate == <<"I", "n", "t", "e", "r", "m", "e", "d", "i", "a", "t", "e">>

tProfessional == <<"P", "r", "o", "f", "e", "s", "s", "i", "o", "n", "a", "l">>

certificationOptions == <<tNone, tBeginner, tIntermediate, tProfessional>>

proficiencyOptions == <<tBeginner, tIntermediate, tProfessional>>

\* the greeting text of initializeChat, abbreviated
greetingText == <<"H", "i">>

\* the id of the greeting message, the literal '1'
greetingId == 1

\* Date.now() is a millisecond count far above the literal id 1
firstNow == 2

\* the ids of the profiles of the built-in sample lists
mockMatchesA == <<"1", "2", "3">>

mockMatchesB == <<"1", "2", "3", "4", "5">>

\* bodies a reachable collaborator may answer with (lists of profile ids): no
\* profile, and more profiles than the user asks for
Responses == { <<>>, <<"7", "8", "9">> }

\* the body `null`, which response.json() returns as it is: valid JSON that
\* is no list
JsonNull == <<"null">>

\* questionIndex of a message that has none, and editingMessageId when null
Undefined == -1

Null == 0

\* field names of UserData, by question index
fieldsA == <<"name", "skills", "location", "yearsExperience", "jobType">>

fieldsB ==
    <<"name", "jobRole", "skills", "jobLevel", "certificationLevel",
      "proficiencyLevel", "profileCount">>

EmptyData == [f \in {} |-> <<>>]

(***************************************************************************)
(* What the user may type into the answer box or an edit box               *)
(***************************************************************************)
tAl == <<"A", "l">>

tLoc == <<"a", ",", "b">>

tSeven == <<"7">>

tTwo == <<"2">>

tBlank == <<" ">>

tAna == <<"A", "n", "a">>

tX == <<"x">>

tSevenAbc == <<"7", "a", "b", "c">>

tThreeNine == <<"3", ".", "9">>

tMinusOne == <<"-", "1">>

tZero == <<"0">>

tOne == <<"1">>

tFive == <<"5">>

tSix == <<"6">>

tNine == <<"9">>

tTen == <<"1", "0">>

tFifty == <<"5", "0">>

tFiftyOne == <<"5", "1">>

tLowerBeginner == <<"b", "e", "g", "i", "n", "n", "e", "r">>

tPaddedBeginner == <<" ", "B", "e", "g", "i", "n", "n", "e", "r", " ">>

tReactGo == <<"R", "e", "a", "c", "t", ",", " ", "G", "o">>

tComma == <<",">>

TextsA == {tLoc, tTwo, tBlank}

TextsB == {tBeginner, tTwo, tBlank}

\* the texts of which one is typed, next to the texts above, in a scenario of
\* SpecInputs
Probes ==
    {tAl, tAna, tX, tSeven, tSevenAbc, tThreeNine, tMinusOne, tZero, tOne, tFive, tSix,
     tNine, tTen, tFifty, tFiftyOne, tLowerBeginner, tPaddedBeginner, tNone,
     tIntermediate, tProfessional, tReactGo, tComma}

\* the scenarios of SpecInputs: nothing but answers, one of them the probe
Probing(text) == [Scenario(0, 0, 0, 0) EXCEPT !.probe = {text}]

\* the scenario of SpecFailures: the collaborator may also answer `null`
NullBody == [Scenario(MaxResets, 0, 0, 0) EXCEPT !.bodies = {JsonNull}]

\* the option buttons the user clicks
ClickedOptions == {tNone, tBeginner}

(***************************************************************************)
(* The values of the form of JobPostingScreen                              *)
(***************************************************************************)
\* What the two salary inputs may hold, in USD: register(..., {valueAsNumber:
\* true}) gives NaN for an empty input
Salaries == {NaN, -1000, 0, 1000, 2000}

\* The values of the form.  otherFields says whether the eight fields that
\* are no salary meet their rules of jobSchema.
JobValues(salaryMin, salaryMax, otherFields) ==
    [salaryMin |-> salaryMin, salaryMax |-> salaryMax, otherFields |-> otherFields]

\* the values after mount and after reset(): defaultValues names no salary
DefaultValues == JobValues(NaN, NaN, FALSE)

\* no job has been posted
NoJob == JobValues(NaN, NaN, FALSE)

JobFormMounted ==
    [values |-> DefaultValues, isSubmitting |-> FALSE, submitSuccess |-> FALSE,
     pending |-> {}, jobData |-> NoJob, posted |-> 0]

(***************************************************************************)
(* The files of ProfileScreen and the values of AppContext                 *)
(***************************************************************************)
File(name, type, size) == [name |-> name, type |-> type, size |-> size]

\* uploadedFile === null
NoFile == File("", "", 0)

allowedTypes ==
    {"application/pdf", "application/msword",
     "application/vnd.openxmlformats-officedocument.wordprocessingml.document"}

\* 5 * 1024 * 1024 bytes
maxSize == 5242880

\* The files the user picks: three the screen accepts, one of them exactly
\* as large as allowed, a picture, and a PDF one byte too large
Files ==
    {File("a.pdf", "application/pdf", 1024),
     File("b.doc", "application/msword", 2048),
     File("c.docx",
          "application/vnd.openxmlformats-officedocument.wordprocessingml.document",
          maxSize),
     File("d.png", "image/png", 1024),
     File("e.pdf", "application/pdf", maxSize + 1)}

\* the step of the simulated upload, in percent
uploadStep == 10

\* the upload is complete at this percentage
uploadDone == 100

ProfileMounted ==
    [uploadProgress |-> 0, uploadedFile |-> NoFile, intervals |-> <<>>,
     selected |-> NoFile, selections |-> 0, notice |-> "none"]

User(name) ==
    [name |-> name, email |-> name \o "@example.com", isAuthenticated |-> TRUE]

\* user: null
NoUser == [name |-> "", email |-> "", isAuthenticated |-> FALSE]

Users == {User("ann"), User("bob")}

\* error: null, which is none of the strings of Errors
NoError == "null"

Errors == {"Network error", "Session expired"}

\* the actions of AppAction, and one whose type the reducer does not know
AppActions ==
    [type : {"SET_USER"}, payload : Users]
        \cup [type : {"SET_LOADING"}, payload : BOOLEAN]
        \cup [type : {"SET_ERROR"}, payload : Errors \cup {NoError}]
        \cup {[type |-> "LOGOUT"], [type |-> "REFRESH"]}

NoAction == [type |-> "none"]

initialState == [user |-> NoUser, loading |-> FALSE, error |-> NoError]

(***************************************************************************)
(* State                                                                   *)
(***************************************************************************)
VARIABLES
    variant,                \* which of the two ChatbotScreen components is mounted
    messages,               \* useState<ChatMessage[]>
    currentInput,           \* useState('')
    currentQuestionIndex,   \* useState(0)
    isTyping,               \* useState(false)
    userData,               \* useState<Partial<UserData>>({})
    isComplete,             \* useState(false)
    matches,                \* useState<MatchProfile[]>([]), as the list of profile ids
    isLoading,              \* useState(false)
    editingMessageId,       \* useState<string | null>(null)
    editValue,              \* useState('')
    showOptions,            \* useState(false), variant B only
    timers,                 \* pending setTimeout callbacks and fetch promises
    now,                    \* the value of the last Date.now() read
    sameMs,                 \* the next read may still return the same value
    collisions,             \* how many reads returned the value of the read before
    toast,                  \* the notification raised by the last step, or "none"
    conv,                   \* how many times startOver has run
    early,                  \* how many answers were sent before their question
    edits,                  \* how many times handleEdit has run
    allow,                  \* the scenario: how often each of these may happen
    jobForm,                \* JobPostingScreen: the form values, its flags, its timers
    profileForm,            \* ProfileScreen: the upload, its intervals in the order they run
    app                     \* AppContext: the state of useReducer and the action last dispatched

vars ==
    <<variant, messages, currentInput, currentQuestionIndex, isTyping, userData,
      isComplete, matches, isLoading, editingMessageId, editValue, showOptions,
      timers, now, sameMs, collisions, toast, conv, early, edits, allow, jobForm,
      profileForm, app>>

\* the state of ChatbotScreen
chatbotVars ==
    <<variant, messages, currentInput, currentQuestionIndex, isTyping, userData,
      isComplete, matches, isLoading, editingMessageId, editValue, showOptions,
      timers, now, sameMs, collisions, toast, conv, early, edits, allow>>

questions == IF variant = "A" THEN questionsA ELSE questionsB

fields == IF variant = "A" THEN fieldsA ELSE fieldsB

Texts == (IF variant = "A" THEN TextsA ELSE TextsB) \cup allow.probe

\* what the collaborator may answer a request with
Bodies == Responses \cup allow.bodies

(***************************************************************************)
(* validateResponse and processResponse                                    *)
(***************************************************************************)
\* a faulty validateResponse whose upper limit of the years is off by one
validateResponseA_WideRange(response, questionIndex) ==
    LET trimmed == Trim(response)
        years == ParseInt(trimmed)
    IN  CASE questionIndex = 0 -> Len(trimmed) >= 2
          [] questionIndex = 1 -> Len(trimmed) > 0
          [] questionIndex = 2 -> StrIncludes(trimmed, ",") /\ Len(trimmed) >= 3
          [] questionIndex = 3 -> ~IsNaN(years) /\ years >= 0 /\ years <= 51
          [] questionIndex = 4 -> Len(trimmed) > 0
          [] OTHER -> TRUE

validateResponseA(response, questionIndex) ==
    LET trimmed == Trim(response)
        years == ParseInt(trimmed)
    IN  CASE questionIndex = 0 -> Len(trimmed) >= 2
          [] questionIndex = 1 -> Len(trimmed) > 0
          [] questionIndex = 2 -> StrIncludes(trimmed, ",") /\ Len(trimmed) >= 3
          [] questionIndex = 3 -> ~IsNaN(years) /\ years >= 0 /\ years <= 50
          [] questionIndex = 4 -> Len(trimmed) > 0
          [] OTHER -> TRUE

\* a faulty validateResponse that wants three characters of a name
validateResponseB_LongName(response, questionIndex) ==
    LET trimmed == Trim(response)
        level == ParseInt(trimmed)
        count == ParseInt(trimmed)
    IN  CASE questionIndex = 0 -> Len(trimmed) >= 3
          [] questionIndex = 1 -> Len(trimmed) >= 2
          [] questionIndex = 2 -> Len(trimmed) > 0
          [] questionIndex = 3 -> ~IsNaN(level) /\ level >= 1 /\ level <= 9
          [] questionIndex = 4 -> ArrIncludes(certificationOptions, trimmed)
          [] questionIndex = 5 -> ArrIncludes(proficiencyOptions, trimmed)
          [] questionIndex = 6 -> ~IsNaN(count) /\ count >= 1 /\ count <= 5
          [] OTHER -> TRUE

validateResponseB(response, questionIndex) ==
    LET trimmed == Trim(response)
        level == ParseInt(trimmed)
        count == ParseInt(trimmed)
    IN  CASE questionIndex = 0 -> Len(trimmed) >= 2
          [] questionIndex = 1 -> Len(trimmed) >= 2
          [] questionIndex = 2 -> Len(trimmed) > 0
          [] questionIndex = 3 -> ~IsNaN(level) /\ level >= 1 /\ level <= 9
          [] questionIndex = 4 -> ArrIncludes(certificationOptions, trimmed)
          [] questionIndex = 5 -> ArrIncludes(proficiencyOptions, trimmed)
          [] questionIndex = 6 -> ~IsNaN(count) /\ count >= 1 /\ count <= 5
          [] OTHER -> TRUE

validateResponse(response, questionIndex) ==
    IF variant = "A" THEN validateResponseA(response, questionIndex)
    ELSE validateResponseB(response, questionIndex)

\* a faulty processResponse that keeps the empty parts of the skills
processValueA_KeepsEmpty(response, questionIndex) ==
    CASE questionIndex = 1 -> MapTrim(Split(response, ","))
      [] questionIndex = 3 -> ParseInt(Trim(response))
      [] OTHER -> Trim(response)

\* the typed value processResponse stores for a slot
processValueA(response, questionIndex) ==
    CASE questionIndex = 1 -> FilterBoolean(MapTrim(Split(response, ",")))
      [] questionIndex = 3 -> ParseInt(Trim(response))
      [] OTHER -> Trim(response)

\* a faulty processResponse that does not trim the parts of the skills
processValueB_NoTrim(response, questionIndex) ==
    CASE questionIndex = 2 -> FilterBoolean(Split(response, ","))
      [] questionIndex \in {3, 6} -> ParseInt(Trim(response))
      [] OTHER -> Trim(response)

processValueB(response, questionIndex) ==
    CASE questionIndex = 2 -> FilterBoolean(MapTrim(Split(response, ",")))
      [] questionIndex \in {3, 6} -> ParseInt(Trim(response))
      [] OTHER -> Trim(response)

processValue(response, questionIndex) ==
    IF variant = "A" THEN processValueA(response, questionIndex)
    ELSE processValueB(response, questionIndex)

\* newUserData of processResponse: a copy of the closure's userData with the
\* slot's field set; an index outside the switch changes nothing
processResponse(data, response, questionIndex) ==
    IF questionIndex \in 0..(Len(fields) - 1)
    THEN LET field == fields[questionIndex + 1]
         IN  [f \in DOMAIN data \cup {field} |->
                 IF f = field THEN processValue(response, questionIndex) ELSE data[f]]
    ELSE data

(***************************************************************************)
(* Messages, timers and what the render makes reachable                    *)
(***************************************************************************)
\* a ChatMessage (its timestamp is never read and is left out)
Message(id, type, content, questionIndex) ==
    [id |-> id, type |-> type, content |-> content, questionIndex |-> questionIndex]

initialMessage == Message(greetingId, "bot", greetingText, Undefined)

\* `${matchedProfiles.length}` inside the confirmation text, abbreviated "#<n>"
DigitChar(n) ==
    CASE n = 0 -> "0" [] n = 1 -> "1" [] n = 2 -> "2" [] n = 3 -> "3"
      [] n = 4 -> "4" [] n = 5 -> "5" [] n = 6 -> "6" [] n = 7 -> "7"
      [] n = 8 -> "8" [] n = 9 -> "9"

successText(n) == <<"#", DigitChar(n)>>

\* Time is counted in units of the shortest delay of the program, 500 ms
Unit == 500

\* the delays of the setTimeout calls, in ms
restartDelay == 500

greetingDelay == 1500

nextQuestionDelay == 500

typingDelay == 1000

resultsDelay == 2000

\* A pending callback: kind names the closure, q is the askQuestion argument,
\* data the submitUserData argument, conv the conversation (count of resets)
\* in which the chain of callbacks was started, left the number of time units
\* until it is due.  A callback runs when it is due.  A fetch has no deadline:
\* it settles at any instant later than the one it was started in.
Timer(kind, q, data, c, delay) ==
    [kind |-> kind, q |-> q, data |-> data, conv |-> c, left |-> delay \div Unit]

Due(t) == t \in timers /\ t.left = 0

\* Array.prototype.slice(0, n) for an integer n
Slice0(arr, n) ==
    LET stop == IF n < 0 THEN Len(arr) + n ELSE n
        last == IF stop > Len(arr) THEN Len(arr) ELSE stop
    IN  IF last <= 0 THEN <<>> ELSE SubSeq(arr, 1, last)

\* a faulty render that keeps the answer form after completion
FormRendered_Always == TRUE

\* The render reads matches.length: with matches null it throws, and the
\* ErrorBoundary around the application replaces the whole screen
Rendered == matches # JsonNull

\* {!isComplete && <form>}: the answer form is rendered
FormRendered == Rendered /\ ~isComplete

\* disabled={isTyping} on the answer input
InputEnabled == FormRendered /\ ~isTyping

\* disabled={!currentInput.trim() || isTyping} on the send button; a form whose
\* submit button is disabled is not submitted by the Enter key either
SendEnabled == FormRendered /\ Trim(currentInput) # <<>> /\ ~isTyping

\* the messages rendered in edit mode (editingMessageId === message.id)
InEditMode(i) == Rendered /\ i \in DOMAIN messages /\ messages[i].id = editingMessageId

\* the Edit button of message i is rendered
EditButton(i) ==
    /\ Rendered
    /\ i \in DOMAIN messages
    /\ ~InEditMode(i)
    /\ messages[i].type = "user"
    /\ ~isComplete

\* the option buttons rendered, as a list
OptionButtons ==
    IF Rendered /\ variant = "B" /\ showOptions /\ ~isComplete
    THEN IF currentQuestionIndex = 4 THEN certificationOptions ELSE proficiencyOptions
    ELSE <<>>

(***************************************************************************)
(* Init: the state after mount, that is after useEffect ran initializeChat *)
(***************************************************************************)
Mounted ==
    /\ variant \in Variants
    /\ messages = <<initialMessage>>
    /\ currentInput = <<>>
    /\ currentQuestionIndex = 0
    /\ isTyping = FALSE
    /\ userData = EmptyData
    /\ isComplete = FALSE
    /\ matches = <<>>
    /\ isLoading = FALSE
    /\ editingMessageId = Null
    /\ editValue = <<>>
    /\ showOptions = FALSE
    /\ timers = {Timer("askQuestion", 0, EmptyData, 0, greetingDelay)}
    /\ now = firstNow
    /\ sameMs = FALSE
    /\ collisions = 0
    /\ toast = "none"
    /\ conv = 0
    /\ early = 0
    /\ edits = 0
    /\ jobForm = JobFormMounted
    /\ profileForm = ProfileMounted
    /\ app = [state |-> initialState, dispatched |-> NoAction]

Init == Mounted /\ allow \in {OnlyResets, OnlyEdits, OnlyEarly}

InitRaces == Mounted /\ allow \in {ResetsAndEarly, SameStamps}

InitInputs == Mounted /\ allow \in {Probing(text) : text \in Probes}

InitFailures == Mounted /\ allow = NullBody

(***************************************************************************)
(* Time                                                                    *)
(***************************************************************************)
\* Date.now() read in a step.  The value grows with time; two reads in
\* different steps return the same value only when less than a millisecond
\* lies between them, which needs sameMs: no time unit has passed since the
\* last read, the user has not typed or clicked a button other than Send since
\* (two events of the user are more than a millisecond apart, a callback and
\* a click need not be), and the scenario still admits a collision.  now is
\* the value of the last read.
DateNow(stamp) ==
    \/ stamp = now + 1
    \/ stamp = now /\ sameMs /\ collisions < allow.collisions

Stamped(stamp) ==
    /\ now' = stamp
    /\ collisions' = IF stamp = now THEN collisions + 1 ELSE collisions
    /\ sameMs' = (collisions' < allow.collisions)

\* One time unit passes.  Callbacks that are due have run before (setTimeout
\* callbacks run when their delay is over); a pending fetch just stays pending.
Tick ==
    /\ timers # {}
    /\ \A t \in timers : t.left > 0 \/ t.kind = "fetch"
    /\ \E t \in timers : t.left > 0
    /\ timers' = {[t EXCEPT !.left = IF t.left > 0 THEN t.left - 1 ELSE 0] : t \in timers}
    /\ sameMs' = FALSE
    /\ toast' = "none"
    /\ UNCHANGED <<app, profileForm, jobForm, allow, variant, messages, currentInput, currentQuestionIndex, isTyping,
                   userData, isComplete, matches, isLoading, editingMessageId,
                   editValue, showOptions, now, collisions, conv, early, edits>>

(***************************************************************************)
(* initializeChat, startOver, askQuestion                                  *)
(***************************************************************************)
\* the setTimeout(initializeChat, 500) of startOver fires
initializeChat(t) ==
    /\ Due(t) /\ t.kind = "initializeChat"
    /\ messages' = <<initialMessage>>
    /\ timers' = (timers \ {t}) \cup
                    {Timer("askQuestion", 0, EmptyData, t.conv, greetingDelay)}
    /\ toast' = "none"
    /\ UNCHANGED <<app, profileForm, jobForm, allow, variant, currentInput, currentQuestionIndex, isTyping, userData,
                   isComplete, matches, isLoading, editingMessageId, editValue,
                   showOptions, now, sameMs, collisions, conv, early, edits>>

\* the Start Over button, rendered in every state
startOver ==
    /\ Rendered
    /\ conv < allow.resets
    /\ messages' = <<>>
    /\ currentInput' = <<>>
    /\ currentQuestionIndex' = 0
    /\ isTyping' = FALSE
    /\ userData' = EmptyData
    /\ isComplete' = FALSE
    /\ matches' = <<>>
    /\ isLoading' = FALSE
    /\ editingMessageId' = Null
    /\ editValue' = <<>>
    /\ showOptions' = FALSE
    /\ timers' = timers \cup
                    {Timer("initializeChat", Undefined, EmptyData, conv + 1, restartDelay)}
    /\ toast' = "success: Chat restarted!"
    /\ conv' = conv + 1
    \* no id is in use any more, and ids are only compared for equality: the
    \* clock value is renamed to the first one
    /\ now' = firstNow
    /\ sameMs' = FALSE
    /\ UNCHANGED <<app, profileForm, jobForm, allow, variant, collisions, early, edits>>

\* a faulty askQuestion that never schedules the question message
askQuestion_Drops(t) ==
    /\ Due(t) /\ t.kind = "askQuestion"
    /\ timers' = timers \ {t}
    /\ toast' = "none"
    /\ UNCHANGED <<app, profileForm, jobForm, allow, variant, messages, currentInput, currentQuestionIndex, isTyping,
                   userData, isComplete, matches, isLoading, editingMessageId, editValue,
                   showOptions, now, sameMs, collisions, conv, early, edits>>

\* a setTimeout(() => askQuestion(q), ...) fires: the synchronous part of
\* askQuestion
askQuestion(t) ==
    /\ Due(t) /\ t.kind = "askQuestion"
    /\ IF t.q >= Len(questions)
       THEN /\ timers' = timers \ {t}
            /\ UNCHANGED isTyping
       ELSE /\ isTyping' = TRUE
            /\ timers' = (timers \ {t}) \cup
                            {Timer("questionMessage", t.q, EmptyData, t.conv, typingDelay)}
    /\ toast' = "none"
    /\ UNCHANGED <<app, profileForm, jobForm, allow, variant, messages, currentInput, currentQuestionIndex, userData,
                   isComplete, matches, isLoading, editingMessageId, editValue,
                   showOptions, now, sameMs, collisions, conv, early, edits>>

\* a faulty inner callback of askQuestion that leaves the typing indicator on
questionMessage_KeepsTyping(t) ==
    /\ Due(t) /\ t.kind = "questionMessage"
    /\ \E stamp \in {now, now + 1} :
          /\ DateNow(stamp)
          /\ Stamped(stamp)
          /\ messages' = Append(messages,
                            Message(stamp, "bot", questions[t.q + 1], Undefined))
    /\ showOptions' = IF variant = "B" THEN t.q = 4 \/ t.q = 5 ELSE showOptions
    /\ timers' = timers \ {t}
    /\ toast' = "none"
    /\ UNCHANGED <<app, profileForm, jobForm, allow, variant, currentInput, currentQuestionIndex, userData,
                   isComplete, isTyping, matches, isLoading, editingMessageId, editValue,
                   conv, early, edits>>

\* the inner setTimeout of askQuestion fires: the question is appended
questionMessage(t) ==
    /\ Due(t) /\ t.kind = "questionMessage"
    /\ \E stamp \in {now, now + 1} :
          /\ DateNow(stamp)
          /\ Stamped(stamp)
          /\ messages' = Append(messages,
                            Message(stamp, "bot", questions[t.q + 1], Undefined))
    /\ isTyping' = FALSE
    /\ showOptions' = IF variant = "B" THEN t.q = 4 \/ t.q = 5 ELSE showOptions
    /\ timers' = timers \ {t}
    /\ toast' = "none"
    /\ UNCHANGED <<app, profileForm, jobForm, allow, variant, currentInput, currentQuestionIndex, userData, isComplete,
                   matches, isLoading, editingMessageId, editValue, conv, early, edits>>

(***************************************************************************)
(* The answer box, the option buttons and the edit box                     *)
(***************************************************************************)
\* onChange of the answer input: setCurrentInput(e.target.value)
setCurrentInput(text) ==
    /\ InputEnabled
    /\ text # currentInput
    /\ currentInput' = text
    /\ toast' = "none"
    /\ sameMs' = FALSE
    /\ UNCHANGED <<app, profileForm, jobForm, allow, variant, messages, currentQuestionIndex, isTyping, userData,
                   isComplete, matches, isLoading, editingMessageId, editValue,
                   showOptions, timers, now, collisions, conv, early, edits>>

\* a faulty handleOptionSelect that leaves the buttons on the screen
handleOptionSelect_KeepsButtons(option) ==
    /\ ArrIncludes(OptionButtons, option)
    /\ currentInput' = option
    /\ toast' = "none"
    /\ sameMs' = FALSE
    /\ UNCHANGED <<app, profileForm, jobForm, allow, variant, messages, currentQuestionIndex, isTyping,
                   userData, isComplete, matches, isLoading, editingMessageId, editValue,
                   showOptions, timers, now, collisions, conv, early, edits>>

handleOptionSelect(option) ==
    /\ ArrIncludes(OptionButtons, option)
    /\ currentInput' = option
    /\ showOptions' = FALSE
    /\ toast' = "none"
    /\ sameMs' = FALSE
    /\ UNCHANGED <<app, profileForm, jobForm, allow, variant, messages, currentQuestionIndex, isTyping, userData,
                   isComplete, matches, isLoading, editingMessageId, editValue,
                   timers, now, collisions, conv, early, edits>>

\* the Edit button of message i: handleEdit(message.id, message.content, ...)
handleEdit(i) ==
    /\ EditButton(i)
    /\ edits < allow.edits
    /\ editingMessageId' = messages[i].id
    /\ editValue' = messages[i].content
    /\ edits' = edits + 1
    /\ toast' = "none"
    /\ sameMs' = FALSE
    /\ UNCHANGED <<app, profileForm, jobForm, allow, variant, messages, currentInput, currentQuestionIndex, isTyping,
                   userData, isComplete, matches, isLoading, showOptions, timers,
                   now, collisions, conv, early>>

\* onChange of the edit input of a message in edit mode
setEditValue(text) ==
    /\ \E i \in DOMAIN messages : InEditMode(i)
    /\ text # editValue
    /\ editValue' = text
    /\ toast' = "none"
    /\ sameMs' = FALSE
    /\ UNCHANGED <<app, profileForm, jobForm, allow, variant, messages, currentInput, currentQuestionIndex, isTyping,
                   userData, isComplete, matches, isLoading, editingMessageId,
                   showOptions, timers, now, collisions, conv, early, edits>>

\* setMessages(prev => prev.map(msg => msg.id === messageId ? {...msg, content} : msg))
replaceContent(msgs, messageId, content) ==
    [i \in DOMAIN msgs |->
        IF msgs[i].id = messageId THEN [msgs[i] EXCEPT !.content = content] ELSE msgs[i]]

\* a faulty saveEdit that only tests for an empty text
saveEditBody_Unchecked(messageId, questionIndex) ==
    IF Trim(editValue) = <<>>
    THEN /\ toast' = "error: Please provide a valid response"
         /\ UNCHANGED <<messages, userData, editingMessageId, editValue>>
    ELSE /\ messages' = replaceContent(messages, messageId, editValue)
         /\ userData' = IF questionIndex # Undefined
                        THEN processResponse(userData, editValue, questionIndex)
                        ELSE userData
         /\ editingMessageId' = Null
         /\ editValue' = <<>>
         /\ toast' = "success: Response updated!"

\* saveEdit(messageId, questionIndex), the body of the handler
saveEditBody(messageId, questionIndex) ==
    IF Trim(editValue) = <<>>
       \/ (questionIndex # Undefined /\ ~validateResponse(editValue, questionIndex))
    THEN /\ toast' = "error: Please provide a valid response"
         /\ UNCHANGED <<messages, userData, editingMessageId, editValue>>
    ELSE /\ messages' = replaceContent(messages, messageId, editValue)
         /\ userData' = IF questionIndex # Undefined
                        THEN processResponse(userData, editValue, questionIndex)
                        ELSE userData
         /\ editingMessageId' = Null
         /\ editValue' = <<>>
         /\ toast' = "success: Response updated!"

\* the Save button of message i, rendered while the message is in edit mode:
\* saveEdit(message.id, message.questionIndex)
saveEdit(i) ==
    /\ InEditMode(i)
    /\ saveEditBody(messages[i].id, messages[i].questionIndex)
    /\ sameMs' = FALSE
    /\ UNCHANGED <<app, profileForm, jobForm, allow, variant, currentInput, currentQuestionIndex, isTyping, isComplete,
                   matches, isLoading, showOptions, timers, now, collisions,
                   conv, early, edits>>

\* a faulty cancelEdit that also empties the answer box
cancelEdit_ClearsInput ==
    /\ \E i \in DOMAIN messages : InEditMode(i)
    /\ editingMessageId' = Null
    /\ editValue' = <<>>
    /\ currentInput' = <<>>
    /\ toast' = "none"
    /\ sameMs' = FALSE
    /\ UNCHANGED <<app, profileForm, jobForm, allow, variant, messages, currentQuestionIndex, isTyping,
                   userData, isComplete, matches, isLoading, showOptions, timers,
                   now, collisions, conv, early, edits>>

\* the Cancel button of a message in edit mode
cancelEdit ==
    /\ \E i \in DOMAIN messages : InEditMode(i)
    /\ editingMessageId' = Null
    /\ editValue' = <<>>
    /\ toast' = "none"
    /\ sameMs' = FALSE
    /\ UNCHANGED <<app, profileForm, jobForm, allow, variant, messages, currentInput, currentQuestionIndex, isTyping,
                   userData, isComplete, matches, isLoading, showOptions, timers,
                   now, collisions, conv, early, edits>>

(***************************************************************************)
(* handleSubmit and submitUserData                                         *)
(***************************************************************************)
\* a faulty handleSubmit that hands over the state of the render instead of
\* the value processResponse returns
submitPending_Stale(data) ==
    IF variant = "A" THEN Timer("results", Undefined, userData, conv, resultsDelay)
    ELSE Timer("fetch", Undefined, userData, conv, Unit)

\* what submitUserData leaves pending when it suspends: variant A awaits the
\* 2000 ms timer, variant B awaits fetch inside submitProfileData
submitPending(data) ==
    IF variant = "A" THEN Timer("results", Undefined, data, conv, resultsDelay)
    ELSE Timer("fetch", Undefined, data, conv, Unit)

\* the prompt of the current question is on the log
QuestionShown ==
    \E i \in DOMAIN messages :
        /\ messages[i].type = "bot"
        /\ currentQuestionIndex < Len(questions)
        /\ messages[i].content = questions[currentQuestionIndex + 1]

\* a faulty rejection that also empties the answer box
rejectAnswer_ClearsInput ==
    /\ toast' = "error: Please provide a valid response"
    /\ currentInput' = <<>>
    /\ UNCHANGED <<messages, currentQuestionIndex, userData, isComplete,
                   isLoading, showOptions, timers, now, sameMs, collisions>>

\* handleSubmit when validateResponse fails: the error toast and return
rejectAnswer ==
    /\ toast' = "error: Please provide a valid response"
    /\ UNCHANGED <<messages, currentInput, currentQuestionIndex, userData, isComplete,
                   isLoading, showOptions, timers, now, sameMs, collisions>>

\* a faulty handleSubmit that also advances the index at the last question
acceptAnswer_AlwaysAdvances ==
    LET updatedUserData == processResponse(userData, currentInput, currentQuestionIndex)
    IN  /\ \E stamp \in {now, now + 1} :
              /\ DateNow(stamp)
              /\ Stamped(stamp)
              /\ messages' = Append(messages,
                     Message(stamp, "user", currentInput, currentQuestionIndex))
        /\ userData' = updatedUserData
        /\ currentInput' = <<>>
        /\ showOptions' = FALSE
        /\ toast' = "none"
        /\ currentQuestionIndex' = currentQuestionIndex + 1
        /\ IF currentQuestionIndex >= Len(questions) - 1
           THEN /\ isComplete' = TRUE
                /\ isLoading' = TRUE
                /\ timers' = timers \cup {submitPending(updatedUserData)}
           ELSE /\ timers' = timers \cup
                      {Timer("askQuestion", currentQuestionIndex + 1, EmptyData, conv,
                             nextQuestionDelay)}
                /\ UNCHANGED <<isComplete, isLoading>>

\* handleSubmit after validation: the user message, processResponse, and
\* either submitUserData (up to its first await) or the next question's timer
acceptAnswer ==
    LET updatedUserData == processResponse(userData, currentInput, currentQuestionIndex)
    IN  /\ \E stamp \in {now, now + 1} :
              /\ DateNow(stamp)
              /\ Stamped(stamp)
              /\ messages' = Append(messages,
                     Message(stamp, "user", currentInput, currentQuestionIndex))
        /\ userData' = updatedUserData
        /\ currentInput' = <<>>
        /\ showOptions' = FALSE
        /\ toast' = "none"
        /\ IF currentQuestionIndex >= Len(questions) - 1
           THEN /\ isComplete' = TRUE
                /\ isLoading' = TRUE
                /\ timers' = timers \cup {submitPending(updatedUserData)}
                /\ UNCHANGED currentQuestionIndex
           ELSE /\ currentQuestionIndex' = currentQuestionIndex + 1
                /\ timers' = timers \cup
                      {Timer("askQuestion", currentQuestionIndex + 1, EmptyData, conv,
                             nextQuestionDelay)}
                /\ UNCHANGED <<isComplete, isLoading>>

\* submit of the answer form
handleSubmit ==
    /\ SendEnabled
    /\ QuestionShown \/ early < allow.early
    /\ early' = IF QuestionShown THEN early ELSE early + 1
    /\ IF Trim(currentInput) = <<>>
       THEN /\ toast' = "none"
            /\ UNCHANGED <<messages, currentInput, currentQuestionIndex, userData,
                           isComplete, isLoading, showOptions, timers, now, sameMs,
                           collisions>>
       ELSE IF ~validateResponse(currentInput, currentQuestionIndex)
       THEN rejectAnswer
       ELSE acceptAnswer
    /\ UNCHANGED <<app, profileForm, jobForm, allow, variant, isTyping, matches, editingMessageId, editValue, conv,
                   edits>>

\* a faulty submitUserData without the finally block
showMatches_KeepsLoading(t, matchedProfiles) ==
    /\ matches' = matchedProfiles
    /\ \E stamp \in {now, now + 1} :
          /\ DateNow(stamp)
          /\ Stamped(stamp)
          /\ messages' = Append(messages,
                Message(stamp, "bot", successText(Len(matchedProfiles)), Undefined))
    /\ toast' = "success: Profile matches found!"
    /\ timers' = timers \ {t}
    /\ UNCHANGED <<app, profileForm, jobForm, allow, variant, currentInput, currentQuestionIndex, isTyping, userData,
                   isComplete, isLoading, editingMessageId, editValue, showOptions, conv,
                   early, edits>>

\* the part of submitUserData after matchedProfiles is known: setMatches, the
\* confirmation message, the success toast, and the finally block
showMatches(t, matchedProfiles) ==
    /\ matches' = matchedProfiles
    /\ \E stamp \in {now, now + 1} :
          /\ DateNow(stamp)
          /\ Stamped(stamp)
          /\ messages' = Append(messages,
                Message(stamp, "bot", successText(Len(matchedProfiles)), Undefined))
    /\ toast' = "success: Profile matches found!"
    /\ isLoading' = FALSE
    /\ timers' = timers \ {t}
    /\ UNCHANGED <<app, profileForm, jobForm, allow, variant, currentInput, currentQuestionIndex, isTyping, userData,
                   isComplete, editingMessageId, editValue, showOptions, conv, early, edits>>

\* matchedProfiles is null: setMatches(null), then matchedProfiles.length
\* throws a TypeError; the outer catch raises the error toast and the finally
\* block clears isLoading.  The render that follows throws (Rendered), the
\* screen is unmounted, and the callbacks still pending act on an unmounted
\* component, without effect.
processingFailed(t) ==
    /\ matches' = JsonNull
    /\ toast' = "error: Failed to find matches. Please try again."
    /\ isLoading' = FALSE
    /\ timers' = {}
    /\ UNCHANGED <<app, profileForm, jobForm, allow, variant, messages, currentInput, currentQuestionIndex, isTyping,
                   userData, isComplete, editingMessageId, editValue, showOptions, now,
                   sameMs, collisions, conv, early, edits>>

\* a faulty success path that cuts the response to the requested count
fetchResolved_Sliced(t, data) ==
    /\ Due(t) /\ t.kind = "fetch"
    /\ data # JsonNull
    /\ showMatches(t, IF "profileCount" \in DOMAIN t.data
                      THEN Slice0(data, t.data["profileCount"])
                      ELSE data)

\* submitProfileData resolves with the body of the collaborator's answer
fetchResolved(t, data) ==
    /\ Due(t) /\ t.kind = "fetch"
    /\ IF data = JsonNull THEN processingFailed(t) ELSE showMatches(t, data)

\* a faulty inner catch that gives up and reports the failure
fetchRejected_Surfaces(t) ==
    /\ Due(t) /\ t.kind = "fetch"
    /\ timers' = timers \ {t}
    /\ toast' = "error: Failed to find matches. Please try again."
    /\ isLoading' = FALSE
    /\ UNCHANGED <<app, profileForm, jobForm, allow, variant, messages, currentInput, currentQuestionIndex, isTyping,
                   userData, isComplete, matches, editingMessageId,
                   editValue, showOptions, now, sameMs, collisions, conv, early, edits>>

\* submitProfileData rejects (network error, !response.ok, body not JSON):
\* the inner catch starts the 2000 ms wait of the fallback
fetchRejected(t) ==
    /\ Due(t) /\ t.kind = "fetch"
    /\ timers' = (timers \ {t}) \cup
                    {Timer("results", Undefined, t.data, t.conv, resultsDelay)}
    /\ toast' = "none"
    /\ UNCHANGED <<app, profileForm, jobForm, allow, variant, messages, currentInput, currentQuestionIndex, isTyping,
                   userData, isComplete, matches, isLoading, editingMessageId,
                   editValue, showOptions, now, sameMs, collisions, conv, early, edits>>

\* a faulty fallback that shows the whole built-in list
mockProfiles_Unsliced(data) ==
    IF variant = "A" THEN mockMatchesA ELSE mockMatchesB

\* the built-in list: mockMatches of variant A, the five sample profiles of
\* variant B sliced to data.profileCount
mockProfiles(data) ==
    IF variant = "A" THEN mockMatchesA
    ELSE IF "profileCount" \in DOMAIN data
         THEN Slice0(mockMatchesB, data["profileCount"])
         ELSE mockMatchesB

\* the 2000 ms timer awaited by submitUserData fires
mockResults(t) ==
    /\ Due(t) /\ t.kind = "results"
    /\ showMatches(t, mockProfiles(t.data))

(***************************************************************************)
(* JobPostingScreen (src/src/screens/ProfileScreen.tsx)                    *)
(***************************************************************************)
\* a faulty schema without the cross-field rule
jobSchema_NoRefine(data) ==
    /\ data.otherFields
    /\ ~IsNaN(data.salaryMin) /\ data.salaryMin >= 0
    /\ ~IsNaN(data.salaryMax) /\ data.salaryMax >= 0

\* jobSchema.safeParse(data).success: z.number() refuses NaN, .min(0) a
\* negative number, and the refinement a maximum below the minimum
jobSchema(data) ==
    /\ data.otherFields
    /\ ~IsNaN(data.salaryMin) /\ data.salaryMin >= 0
    /\ ~IsNaN(data.salaryMax) /\ data.salaryMax >= 0
    /\ data.salaryMax >= data.salaryMin

\* formState.isValid under mode: 'onChange'
isValid == jobSchema(jobForm.values)

\* the form is rendered unless the success panel replaces it
JobFormRendered == ~jobForm.submitSuccess

\* how many postings one behaviour of SpecJobs follows
MaxPostings == 2

\* onChange of an input of the form
changeSalaryMin(v) ==
    /\ JobFormRendered
    /\ v # jobForm.values.salaryMin
    /\ jobForm' = [jobForm EXCEPT !.values.salaryMin = v]
    /\ UNCHANGED <<chatbotVars, profileForm, app>>

changeSalaryMax(v) ==
    /\ JobFormRendered
    /\ v # jobForm.values.salaryMax
    /\ jobForm' = [jobForm EXCEPT !.values.salaryMax = v]
    /\ UNCHANGED <<chatbotVars, profileForm, app>>

changeOtherFields(ok) ==
    /\ JobFormRendered
    /\ ok # jobForm.values.otherFields
    /\ jobForm' = [jobForm EXCEPT !.values.otherFields = ok]
    /\ UNCHANGED <<chatbotVars, profileForm, app>>

\* handleSubmit(onSubmit) of react-hook-form, reached through the Post Job
\* button (disabled={!isValid || isSubmitting}): the resolver runs on the
\* values, and onSubmit is called with them only if it reports no error;
\* onSubmit sets isSubmitting and awaits its 2000 ms timer
submitJob ==
    /\ JobFormRendered
    /\ isValid /\ ~jobForm.isSubmitting
    /\ jobForm.posted < MaxPostings
    /\ jobForm' = IF jobSchema(jobForm.values)
                  THEN [jobForm EXCEPT !.isSubmitting = TRUE,
                                       !.pending = @ \cup {[kind |-> "onSubmit",
                                                            data |-> jobForm.values]}]
                  ELSE jobForm
    /\ UNCHANGED <<chatbotVars, profileForm, app>>

\* onSubmit after its await: jobData is built from data, the success panel
\* is shown, the timer of the reset is started, and finally isSubmitting is
\* cleared
onSubmit(t) ==
    /\ t \in jobForm.pending /\ t.kind = "onSubmit"
    /\ jobForm' = [jobForm EXCEPT !.jobData = t.data,
                                  !.posted = @ + 1,
                                  !.submitSuccess = TRUE,
                                  !.isSubmitting = FALSE,
                                  !.pending = (@ \ {t}) \cup
                                                 {[kind |-> "reset", data |-> t.data]}]
    /\ UNCHANGED <<chatbotVars, profileForm, app>>

\* the 3000 ms timer of onSubmit fires: reset(); setSubmitSuccess(false)
resetJobForm(t) ==
    /\ t \in jobForm.pending /\ t.kind = "reset"
    /\ jobForm' = [jobForm EXCEPT !.values = DefaultValues,
                                  !.submitSuccess = FALSE,
                                  !.pending = @ \ {t}]
    /\ UNCHANGED <<chatbotVars, profileForm, app>>

(***************************************************************************)
(* ProfileScreen: the simulated upload (src/src/screens/ProfileScreen.tsx) *)
(***************************************************************************)
\* how many files one behaviour of SpecUpload selects
MaxSelections == 3

\* The file input is rendered while no file is uploaded.  onChange of the
\* input: a file of another type or above 5 MB is refused with a toast;
\* otherwise the progress restarts at 0 and a new interval is started.  No
\* interval that is already running is cleared.  All intervals have the
\* same period of 200 ms, so a new interval runs after every running one
\* has run once more: it joins the end of the order in which they run.
handleFileUpload(file) ==
    /\ profileForm.uploadedFile = NoFile
    /\ profileForm.selections < MaxSelections
    /\ profileForm' =
          IF ~(file.type \in allowedTypes)
          THEN [profileForm EXCEPT !.selections = @ + 1,
                                   !.notice = "error: Please upload a PDF or DOC file"]
          ELSE IF file.size > maxSize
          THEN [profileForm EXCEPT !.selections = @ + 1,
                                   !.notice = "error: File size must be less than 5MB"]
          ELSE [profileForm EXCEPT !.selections = @ + 1,
                                   !.uploadProgress = 0,
                                   !.intervals = Append(@, file),
                                   !.selected = file,
                                   !.notice = "none"]
    /\ UNCHANGED <<chatbotVars, jobForm, app>>

\* The callback of the interval that is due next.  It reads the one
\* uploadProgress all intervals share: at 100 it clears its own interval
\* and sets uploadedFile to the file it was started for, below 100 it adds
\* 10 and stays in the order, behind the others.
uploadInterval ==
    /\ profileForm.intervals # <<>>
    /\ LET file == Head(profileForm.intervals)
       IN  profileForm' =
              IF profileForm.uploadProgress >= uploadDone
              THEN [profileForm EXCEPT !.intervals = Tail(@),
                                       !.uploadedFile = file,
                                       !.uploadProgress = uploadDone,
                                       !.notice = "success: File uploaded successfully"]
              ELSE [profileForm EXCEPT !.intervals = Append(Tail(@), file),
                                       !.uploadProgress = @ + uploadStep,
                                       !.notice = "none"]
    /\ UNCHANGED <<chatbotVars, jobForm, app>>

\* the Remove button, rendered while a file is uploaded
removeFile ==
    /\ profileForm.uploadedFile # NoFile
    /\ profileForm' = [profileForm EXCEPT !.uploadedFile = NoFile,
                                          !.uploadProgress = 0,
                                          !.notice = "none"]
    /\ UNCHANGED <<chatbotVars, jobForm, app>>

(***************************************************************************)
(* AppContext (src/unnamed/part_000)                                       *)
(***************************************************************************)
\* a faulty reducer whose SET_ERROR keeps loading and whose LOGOUT clears
\* the error as well
appReducer_Careless(state, action) ==
    CASE action.type = "SET_USER" ->
            [state EXCEPT !.user = action.payload, !.error = NoError]
      [] action.type = "SET_LOADING" ->
            [state EXCEPT !.loading = action.payload]
      [] action.type = "SET_ERROR" ->
            [state EXCEPT !.error = action.payload]
      [] action.type = "LOGOUT" ->
            [state EXCEPT !.user = NoUser, !.error = NoError]
      [] OTHER -> state

appReducer(state, action) ==
    CASE action.type = "SET_USER" ->
            [state EXCEPT !.user = action.payload, !.error = NoError]
      [] action.type = "SET_LOADING" ->
            [state EXCEPT !.loading = action.payload]
      [] action.type = "SET_ERROR" ->
            [state EXCEPT !.error = action.payload, !.loading = FALSE]
      [] action.type = "LOGOUT" ->
            [state EXCEPT !.user = NoUser]
      [] OTHER -> state

\* dispatch of useReducer(appReducer, initialState)
dispatch(action) ==
    /\ app' = [state |-> appReducer(app.state, action), dispatched |-> action]
    /\ UNCHANGED <<chatbotVars, jobForm, profileForm>>

(***************************************************************************)
(* Specification                                                           *)
(***************************************************************************)
\* the pending callback or promise t runs
Fires(t) ==
    \/ initializeChat(t)
    \/ askQuestion(t)
    \/ questionMessage(t)
    \/ \E data \in Bodies : fetchResolved(t, data)
    \/ fetchRejected(t)
    \/ mockResults(t)

TimerStep == \E t \in timers : Fires(t)

Next ==
    \/ Tick
    \/ startOver
    \/ \E t \in timers : initializeChat(t)
    \/ \E t \in timers : askQuestion(t)
    \/ \E t \in timers : questionMessage(t)
    \/ \E text \in Texts : setCurrentInput(text)
    \/ \E option \in ClickedOptions : handleOptionSelect(option)
    \/ handleSubmit
    \/ \E i \in DOMAIN messages : handleEdit(i)
    \/ \E text \in Texts : setEditValue(text)
    \/ \E i \in DOMAIN messages : saveEdit(i)
    \/ cancelEdit
    \/ \E t \in timers, data \in Bodies : fetchResolved(t, data)
    \/ \E t \in timers : fetchRejected(t)
    \/ \E t \in timers : mockResults(t)

Spec == Init /\ [][Next]_vars

SpecRaces == InitRaces /\ [][Next]_vars

\* The steps of a conversation that is neither reset nor edited
NextAnswers ==
    \/ Tick
    \/ \E t \in timers : askQuestion(t)
    \/ \E t \in timers : questionMessage(t)
    \/ \E text \in Texts : setCurrentInput(text)
    \/ \E option \in ClickedOptions : handleOptionSelect(option)
    \/ handleSubmit
    \/ \E t \in timers, data \in Bodies : fetchResolved(t, data)
    \/ \E t \in timers : fetchRejected(t)
    \/ \E t \in timers : mockResults(t)

SpecInputs == InitInputs /\ [][NextAnswers]_vars

\* The steps of conversations that are reset but not edited
NextFailures ==
    \/ Tick
    \/ startOver
    \/ \E t \in timers : initializeChat(t)
    \/ \E t \in timers : askQuestion(t)
    \/ \E t \in timers : questionMessage(t)
    \/ \E text \in Texts : setCurrentInput(text)
    \/ \E option \in ClickedOptions : handleOptionSelect(option)
    \/ handleSubmit
    \/ \E t \in timers, data \in Bodies : fetchResolved(t, data)
    \/ \E t \in timers : fetchRejected(t)
    \/ \E t \in timers : mockResults(t)

SpecFailures == InitFailures /\ [][NextFailures]_vars

\* JobPostingScreen alone
InitJobs == Mounted /\ allow = Scenario(0, 0, 0, 0)

NextJobs ==
    \/ \E v \in Salaries : changeSalaryMin(v)
    \/ \E v \in Salaries : changeSalaryMax(v)
    \/ \E ok \in BOOLEAN : changeOtherFields(ok)
    \/ submitJob
    \/ \E t \in jobForm.pending : onSubmit(t)
    \/ \E t \in jobForm.pending : resetJobForm(t)

SpecJobs == InitJobs /\ [][NextJobs]_vars

\* the upload of ProfileScreen alone
InitUpload == Mounted /\ allow = Scenario(0, 0, 0, 0)

NextUpload ==
    \/ \E file \in Files : handleFileUpload(file)
    \/ uploadInterval
    \/ removeFile

SpecUpload == InitUpload /\ [][NextUpload]_vars

\* AppContext alone
InitApp == Mounted /\ allow = Scenario(0, 0, 0, 0)

NextApp == \E action \in AppActions : dispatch(action)

SpecApp == InitApp /\ [][NextApp]_vars

\* Time passes, a callback that is due runs, a fetch settles
FairSpec == Spec /\ WF_vars(Tick) /\ WF_vars(TimerStep)

(***************************************************************************)
(* Properties                                                              *)
(***************************************************************************)
errorToast == "error: Please provide a valid response"

\* the positions of the answers on the log
UserMessages ==
    {i \in DOMAIN messages :
        messages[i].type = "user" /\ messages[i].questionIndex # Undefined}

\* the positions of the bot messages with the given text
BotMessages(content) ==
    {i \in DOMAIN messages : messages[i].type = "bot" /\ messages[i].content = content}

\* the positions of the results-confirmation messages
Confirmations ==
    {i \in DOMAIN messages :
        /\ messages[i].type = "bot"
        /\ Len(messages[i].content) > 0
        /\ messages[i].content[1] = "#"}

\* the submissions of the current conversation that have not settled
PendingSubmissions ==
    {t \in timers : t.kind \in {"fetch", "results"} /\ t.conv = conv}

\* C1: every user message that carries a question index s has a text that
\* passes validateResponse for s, and userData's slot s is the value
\* processResponse computes from that text.
C1_LogMatchesAccumulator ==
    \A i \in UserMessages :
        LET s == messages[i].questionIndex
            text == messages[i].content
        IN  /\ validateResponse(text, s)
            /\ fields[s + 1] \in DOMAIN userData
            /\ userData[fields[s + 1]] = processValue(text, s)

\* C2: a handleSubmit step whose input fails validateResponse for the current
\* question index appends no message, leaves the index, the accumulator and the
\* input as they are, and surfaces the error notification.
C2_RejectedSubmitChangesNothing ==
    [][(handleSubmit /\ ~validateResponse(currentInput, currentQuestionIndex))
          => /\ messages' = messages
             /\ currentQuestionIndex' = currentQuestionIndex
             /\ userData' = userData
             /\ currentInput' = currentInput
             /\ toast' = errorToast]_vars

\* a rejected answer: the error is shown and the rejected text is still in
\* the answer box
C2_Witness ==
    /\ toast = errorToast
    /\ editingMessageId = Null
    /\ Trim(currentInput) # <<>>
    /\ ~validateResponse(currentInput, currentQuestionIndex)
    /\ UserMessages # {}

\* C3: once a reset has settled (nothing is pending, and the user has not
\* answered or typed since) the log is the greeting followed by question 0,
\* the accumulator is empty, the index is 0, no edit session is open and no
\* results are shown.
C3_ResetSettles ==
    (conv > 0 /\ timers = {} /\ currentInput = <<>> /\ UserMessages = {})
        => /\ Len(messages) = 2
           /\ messages[1] = initialMessage
           /\ messages[2].type = "bot"
           /\ messages[2].content = questions[1]
           /\ userData = EmptyData
           /\ currentQuestionIndex = 0
           /\ editingMessageId = Null
           /\ matches = <<>>
           /\ ~isLoading

\* C4: a callback or a submission started before the last startOver never
\* changes the log, the result list or the typing and loading flags.
C4_StaleWorkDiscarded ==
    [][\A t \in timers :
          (t.conv < conv /\ Fires(t))
             => /\ messages' = messages
                /\ matches' = matches
                /\ isTyping' = isTyping
                /\ isLoading' = isLoading]_vars

\* C5: once isComplete is set, no saveEdit step changes a message or the
\* accumulator.
C5_NoEditAfterCompletion ==
    [][\A i \in DOMAIN messages :
          (isComplete /\ saveEdit(i)) => (messages' = messages /\ userData' = userData)]_vars

\* C6: each user message with question index i is preceded on the log by the
\* bot message carrying questions[i].
C6_QuestionBeforeAnswer ==
    \A i \in UserMessages :
        \E j \in BotMessages(questions[messages[i].questionIndex + 1]) : j < i

\* C7: the log never contains the question-0 prompt more than once.
C7_FirstQuestionOnce == Cardinality(BotMessages(questions[1])) <= 1

\* C8: one conversation has at most one submission pending, its log has no
\* confirmation message before completion, never more than one, and exactly
\* one in Complete.
C8_OneSubmission ==
    /\ Cardinality(PendingSubmissions) <= 1
    /\ Cardinality(Confirmations) <= 1
    /\ ~isComplete => Confirmations = {}
    /\ (isComplete /\ ~isLoading) => Cardinality(Confirmations) = 1

\* C9: a conversation that is in Submitting (isComplete and isLoading)
\* eventually is in Complete (isComplete and not isLoading), unless it is
\* reset, when time passes, due callbacks run and the fetch settles.
C9_SubmittingReachesComplete ==
    \A c \in 0..MaxResets :
        (conv = c /\ isComplete /\ isLoading)
            ~> ((conv = c /\ isComplete /\ ~isLoading) \/ conv # c)

\* Complete, reached without a reset after the fetch failed: the built-in
\* list is shown
C9_Witness ==
    /\ variant = "B"
    /\ conv = 0
    /\ isComplete
    /\ ~isLoading
    /\ matches = mockProfiles(userData)
    /\ Confirmations # {}

\* C10: while isComplete is set there is no handleSubmit step, and no step
\* other than a reset changes the index or the number of answers on the log.
C10_NoAnswerAfterCompletion ==
    [][isComplete
          => /\ ~handleSubmit
             /\ isComplete'
                  => /\ currentQuestionIndex' = currentQuestionIndex
                     /\ Cardinality(UserMessages') = Cardinality(UserMessages)]_vars

\* Submitting: the final answer is on the log and the submission is pending
C10_Witness ==
    /\ isComplete
    /\ isLoading
    /\ PendingSubmissions # {}
    /\ \E i \in UserMessages : messages[i].questionIndex = Len(questions) - 1

\* the answers on the log that are in edit mode
EditedAnswers == {k \in UserMessages : messages[k].id = editingMessageId}

\* the positions whose text differs between a step's two states
ChangedTexts ==
    {j \in DOMAIN messages :
        j \notin DOMAIN messages' \/ messages'[j].content # messages[j].content}

\* C11: a saveEdit step on a committed answer with a replacement that is valid
\* for the answer's slot sets the answer's text to the replacement, sets the
\* accumulator value of that slot to the value processResponse computes from
\* it, and leaves every other accumulator slot as it is.
C11_ValidEditUpdatesSlot ==
    [][\A i \in DOMAIN messages, k \in EditedAnswers :
          LET s == messages[k].questionIndex
              field == fields[s + 1]
          IN  (saveEdit(i) /\ Trim(editValue) # <<>> /\ validateResponse(editValue, s))
                 => /\ messages'[k].content = editValue
                    /\ DOMAIN userData' = DOMAIN userData \cup {field}
                    /\ userData'[field] = processValue(editValue, s)
                    /\ \A f \in DOMAIN userData \ {field} : userData'[f] = userData[f]]_vars

\* C12: a successful saveEdit step keeps the length of the log, the id, role,
\* question index and position of every message and currentQuestionIndex, and
\* changes the text of no message but the one answer that was edited.
C12_EditInPlace ==
    [][\A i \in DOMAIN messages :
          (saveEdit(i) /\ toast' = "success: Response updated!")
             => /\ Len(messages') = Len(messages)
                /\ currentQuestionIndex' = currentQuestionIndex
                /\ \A j \in DOMAIN messages :
                      /\ messages'[j].id = messages[j].id
                      /\ messages'[j].type = messages[j].type
                      /\ messages'[j].questionIndex = messages[j].questionIndex
                /\ ChangedTexts \subseteq EditedAnswers
                /\ Cardinality(ChangedTexts) <= 1]_vars

\* C13: a saveEdit step on a committed answer with a replacement that is
\* empty after trim or fails validateResponse for the answer's slot leaves the
\* log and the accumulator as they are and surfaces the error; the edit
\* session stays open on the same message with the rejected text.
C13_InvalidEditRejected ==
    [][\A i \in DOMAIN messages, k \in EditedAnswers :
          (/\ saveEdit(i)
           /\ Trim(editValue) = <<>> \/ ~validateResponse(editValue, messages[k].questionIndex))
             => /\ messages' = messages
                /\ userData' = userData
                /\ toast' = errorToast
                /\ editingMessageId' = editingMessageId
                /\ editValue' = editValue]_vars

\* a handleSubmit step that commits the answer
AnswerAccepted ==
    /\ handleSubmit
    /\ messages' = Append(messages, messages'[Len(messages')])
    /\ messages'[Len(messages')].type = "user"
    /\ messages'[Len(messages')].content = currentInput
    /\ messages'[Len(messages')].questionIndex = currentQuestionIndex
    /\ IF currentQuestionIndex < Len(questions) - 1
       THEN currentQuestionIndex' = currentQuestionIndex + 1 /\ ~isComplete'
       ELSE currentQuestionIndex' = currentQuestionIndex /\ isComplete'

\* a handleSubmit step that rejects the answer: the state machine stays
AnswerRejected ==
    /\ handleSubmit
    /\ messages' = messages
    /\ currentQuestionIndex' = currentQuestionIndex
    /\ userData' = userData
    /\ isComplete' = isComplete
    /\ toast' = errorToast

\* the text is an integer numeral: an optional minus sign and digits, nothing else
IsIntegerNumeral(text) ==
    LET body == IF text # <<>> /\ text[1] = "-" THEN Tail(text) ELSE text
    IN  body # <<>> /\ \A i \in 1..Len(body) : body[i] \in Digits

\* the integer an integer numeral denotes
RECURSIVE NumeralValue(_)
NumeralValue(text) ==
    IF text = <<>> THEN 0
    ELSE IF text[1] = "-" THEN 0 - NumeralValue(Tail(text))
    ELSE 10 * NumeralValue(SubSeq(text, 1, Len(text) - 1)) + DigitVal(text[Len(text)])

\* the slots with a numeric range and their ranges
NumericSlots == IF variant = "A" THEN {3} ELSE {3, 6}

NumericRange(questionIndex) ==
    IF variant = "A" THEN 0..50
    ELSE IF questionIndex = 3 THEN 1..9 ELSE 1..5

\* C14: in a numeric slot a submitted integer outside the slot's range is
\* rejected and the state machine does not advance; a submitted integer inside
\* the range is accepted and the accumulator gets exactly that integer.
C14_NumericRange ==
    [][(/\ handleSubmit
        /\ currentQuestionIndex \in NumericSlots
        /\ IsIntegerNumeral(currentInput))
          => IF NumeralValue(currentInput) \in NumericRange(currentQuestionIndex)
             THEN /\ AnswerAccepted
                  /\ userData'[fields[currentQuestionIndex + 1]] = NumeralValue(currentInput)
             ELSE AnswerRejected]_vars

\* job level 10, one above the range, was rejected
C14_Witness ==
    /\ variant = "B"
    /\ currentQuestionIndex = 3
    /\ currentInput = tTen
    /\ toast = errorToast
    /\ "jobLevel" \notin DOMAIN userData

\* C15: in a numeric slot a submitted text whose trimmed form is not an
\* integer numeral is rejected.
C15_NonNumeralRejected ==
    [][(/\ handleSubmit
        /\ currentQuestionIndex \in NumericSlots
        /\ ~IsIntegerNumeral(Trim(currentInput)))
          => AnswerRejected]_vars

\* the options of an enumerated slot of variant B
EnumeratedSlots == IF variant = "B" THEN {4, 5} ELSE {}

OptionSet(questionIndex) ==
    IF questionIndex = 4 THEN certificationOptions ELSE proficiencyOptions

\* C16: in an enumerated slot a submitted text is accepted if it is, character
\* for character, a member of the slot's option set, and rejected otherwise.
C16_ExactOption ==
    [][(handleSubmit /\ currentQuestionIndex \in EnumeratedSlots)
          => IF ArrIncludes(OptionSet(currentQuestionIndex), currentInput)
             THEN AnswerAccepted
             ELSE AnswerRejected]_vars

SkillsSlot == IF variant = "A" THEN 1 ELSE 2

\* the parts of the text between its commas, each trimmed, without the empty
\* ones, in their order
SkillsOf(text) ==
    LET cuts == {0, Len(text) + 1} \cup {i \in 1..Len(text) : text[i] = ","}
        Cut(k) == CHOOSE b \in cuts : Cardinality({x \in cuts : x < b}) = k - 1
        parts == [k \in 1..(Cardinality(cuts) - 1) |->
                     Trim(SubSeq(text, Cut(k) + 1, Cut(k + 1) - 1))]
        NonEmpty(part) == part # <<>>
    IN  SelectSeq(parts, NonEmpty)

\* C17: in the skills slot a submitted text that is non-empty after trim is
\* accepted, and the accumulator gets the list of its comma-separated parts,
\* each trimmed, without the empty ones, in their order.
C17_SkillsList ==
    [][(handleSubmit /\ currentQuestionIndex = SkillsSlot /\ Trim(currentInput) # <<>>)
          => /\ AnswerAccepted
             /\ userData'["skills"] = SkillsOf(currentInput)]_vars

\* "React, Go" was committed as ["React", "Go"]
C17_Witness ==
    /\ \E i \in UserMessages :
          messages[i].questionIndex = SkillsSlot /\ messages[i].content = tReactGo
    /\ "skills" \in DOMAIN userData
    /\ userData["skills"] = << <<"R", "e", "a", "c", "t">>, <<"G", "o">> >>

\* the slots of the job role (variant B) and the job type (variant A)
JobSlot == IF variant = "A" THEN 4 ELSE 1

\* C18: a submitted name is accepted iff its trimmed length is at least 2; a
\* submitted job role or job type and submitted skills are accepted iff they
\* are non-empty after trim.
C18_FreeTextRule ==
    [][(handleSubmit /\ currentQuestionIndex \in {0, JobSlot, SkillsSlot})
          => IF \/ currentQuestionIndex = 0 /\ Len(Trim(currentInput)) >= 2
                \/ currentQuestionIndex # 0 /\ Len(Trim(currentInput)) >= 1
             THEN AnswerAccepted
             ELSE AnswerRejected]_vars

\* C19: in the name slot the submitted text "Al" is rejected and the
\* conversation does not advance; the submitted text "Ana" is accepted and
\* the conversation advances to slot 1.
C19_AlAndAna ==
    [][(handleSubmit /\ currentQuestionIndex = 0)
          => /\ currentInput = tAl => AnswerRejected
             /\ currentInput = tAna => AnswerAccepted /\ currentQuestionIndex' = 1]_vars

\* C19 as amended: in the name slot the submitted texts "Al" and "Ana" are
\* accepted, the name is stored and the conversation advances to slot 1; a
\* submitted text of one character is rejected and the conversation does not
\* advance.
C19_AlAccepted ==
    [][(handleSubmit /\ currentQuestionIndex = 0)
          => /\ currentInput \in {tAl, tAna}
                  => /\ AnswerAccepted
                     /\ currentQuestionIndex' = 1
                     /\ userData'["name"] = currentInput
             /\ currentInput = tX => AnswerRejected]_vars

\* "Al" was accepted as the name and the conversation is at slot 1
C19_Witness ==
    /\ currentQuestionIndex = 1
    /\ \E i \in UserMessages : messages[i].questionIndex = 0 /\ messages[i].content = tAl
    /\ "name" \in DOMAIN userData
    /\ userData["name"] = tAl


\* C20: a handleSubmit step that accepts an answer at a slot before the last
\* one raises currentQuestionIndex by exactly one, no step changes the index
\* otherwise than by that or by a reset to 0, and once the index is j in a
\* conversation, the question of slot j is eventually on the log unless a
\* reset ends the conversation first.
C20_AdvanceAndAsk ==
    /\ [][/\ (/\ handleSubmit
              /\ Len(messages') = Len(messages) + 1
              /\ currentQuestionIndex < Len(questions) - 1)
                => (currentQuestionIndex' = currentQuestionIndex + 1)
          /\ (currentQuestionIndex' # currentQuestionIndex)
                => (\/ /\ handleSubmit
                       /\ Len(messages') = Len(messages) + 1
                       /\ currentQuestionIndex' = currentQuestionIndex + 1
                    \/ startOver /\ currentQuestionIndex' = 0)]_vars
    /\ \A c \in 0..MaxResets : \A j \in 1..(Len(questionsB) - 1) :
          (conv = c /\ currentQuestionIndex = j)
              ~> (conv # c \/ (j < Len(questions) /\ BotMessages(questions[j + 1]) # {}))

\* the second answer was accepted and the third question followed it on the log
C20_Witness ==
    /\ currentQuestionIndex = 2
    /\ \E i \in UserMessages : \E k \in BotMessages(questions[3]) :
          messages[i].questionIndex = 1 /\ i < k

\* the text of the success notification of submitUserData
successToast == "success: Profile matches found!"

\* the step appends one results-confirmation message that cites n
ConfirmationAppended(n) ==
    /\ Len(messages') = Len(messages) + 1
    /\ SubSeq(messages', 1, Len(messages)) = messages
    /\ messages'[Len(messages')].type = "bot"
    /\ messages'[Len(messages')].content = successText(n)

\* C21: in the second component, the step that ends the fallback after a
\* failed collaborator call sets the result list to the first profileCount
\* entries of the five sample profiles, in their order, profileCount being the
\* count of the submitted record, so that exactly profileCount results are
\* shown, and appends a confirmation message.
C21_FallbackList ==
    [][\A t \in timers :
          (variant = "B" /\ mockResults(t))
              => /\ "profileCount" \in DOMAIN t.data
                 /\ t.data["profileCount"] \in 1..Len(mockMatchesB)
                 /\ Len(matches') = t.data["profileCount"]
                 /\ \A k \in 1..Len(matches') : matches'[k] = mockMatchesB[k]
                 /\ ConfirmationAppended(Len(matches'))]_vars

\* the fallback has shown two of the five sample profiles for a count of 2
C21_Witness ==
    /\ variant = "B"
    /\ isComplete
    /\ "profileCount" \in DOMAIN userData
    /\ userData["profileCount"] = 2
    /\ matches = <<"1", "2">>
    /\ BotMessages(successText(2)) # {}

\* the text of the error notification of the outer catch of submitUserData
failedToast == "error: Failed to find matches. Please try again."

\* the notification is one raised with toast.error
IsErrorToast(t) == t \in {errorToast, failedToast}

\* C22: in the second component, the step in which the collaborator call
\* fails raises no error notification and leaves the fallback pending, and the
\* step that ends the fallback raises the success notification and shows at
\* least one result; unless a reset has ended the conversation that made the
\* submission, that conversation is then Complete (isComplete set, isLoading
\* cleared).
C22_FailureNotSurfaced ==
    [][\A t \in timers :
          /\ (variant = "B" /\ fetchRejected(t))
                => /\ ~IsErrorToast(toast')
                   /\ \E r \in timers' : r.kind = "results" /\ r.data = t.data
                   /\ isLoading' = isLoading
          /\ (variant = "B" /\ mockResults(t))
                => /\ toast' = successToast
                   /\ Len(matches') > 0
                   /\ t.conv = conv => isComplete' /\ ~isLoading']_vars

\* Complete after a failed collaborator call: the success notification is up
\* and the sample profiles are shown
C22_Witness ==
    /\ variant = "B"
    /\ toast = successToast
    /\ isComplete
    /\ ~isLoading
    /\ Len(matches) > 0
    /\ matches = Slice0(mockMatchesB, Len(matches))
    /\ PendingSubmissions = {}

\* the profiles rendered as cards: matches.length > 0 && matches.map(...)
RenderedResults == matches

\* C23: the step in which the collaborator call succeeds stores the response
\* list as it is (same entries, same order, not cut to profileCount), the
\* cards rendered are that list, and the confirmation message appended
\* cites the number of cards.
C23_ResponseVerbatim ==
    [][\A t \in timers : \A data \in Responses :
          fetchResolved(t, data)
              => /\ matches' = data
                 /\ Len(RenderedResults') = Len(data)
                 /\ \A k \in 1..Len(data) : RenderedResults'[k] = data[k]
                 /\ ConfirmationAppended(Len(RenderedResults'))
                 /\ toast' = successToast]_vars

\* a response of three profiles is shown whole to a user who asked for two
C23_Witness ==
    /\ variant = "B"
    /\ "profileCount" \in DOMAIN userData
    /\ userData["profileCount"] = 2
    /\ RenderedResults = <<"7", "8", "9">>
    /\ BotMessages(successText(3)) # {}

\* Submitting: the final answer is committed and the loading indicator is up
Submitting == isComplete /\ isLoading

\* C24: the step in which the processing of the submission throws raises the
\* error notification and leaves the conversation in Submitting, with no
\* result shown, no confirmation message appended and no new call of the
\* collaborator; afterwards only startOver changes the conversation.
C24_FailureStaysSubmitting ==
    [][/\ \A t \in timers :
             fetchResolved(t, JsonNull)
                 => /\ toast' = failedToast
                    /\ Submitting'
                    /\ messages' = messages
                    /\ matches' \in {<<>>, JsonNull}
                    /\ ~\E r \in timers' \ timers : r.kind = "fetch"
       /\ (matches = JsonNull /\ ~startOver)
             => /\ UNCHANGED <<messages, matches, isComplete, isLoading>>
                /\ ~\E r \in timers' \ timers : r.kind = "fetch"]_vars

\* C25: a step other than startOver removes no message: the log of the state
\* before is a prefix of the log after, up to the texts; and a text changes
\* only in a saveEdit step.
C25_LogOnlyGrows ==
    [][/\ ~startOver
             => /\ Len(messages') >= Len(messages)
                /\ \A i \in DOMAIN messages :
                      /\ messages'[i].id = messages[i].id
                      /\ messages'[i].type = messages[i].type
                      /\ messages'[i].questionIndex = messages[i].questionIndex
       /\ \A i \in DOMAIN messages :
             (i \in DOMAIN messages' /\ ~startOver /\ messages'[i].content # messages[i].content)
                 => \E k \in DOMAIN messages : saveEdit(k)]_vars

\* the slots of the question sequence, by question index
Slots == 0..(Len(fields) - 1)

\* the slots the accumulator holds a value for
HeldSlots == {s \in Slots : fields[s + 1] \in DOMAIN userData}

\* C26: the accumulator has no field outside the question sequence, and the
\* value it holds for a slot meets the slot's constraint: a name of at least
\* two characters, a number inside the slot's closed range, a member of the
\* slot's option set.
C26_HeldValuesValid ==
    /\ DOMAIN userData \subseteq {fields[s + 1] : s \in Slots}
    /\ \A s \in HeldSlots :
          LET value == userData[fields[s + 1]]
          IN  /\ s = 0 => Len(value) >= 2
              /\ s \in NumericSlots => value \in NumericRange(s)
              /\ s \in EnumeratedSlots =>
                    \E k \in DOMAIN OptionSet(s) : OptionSet(s)[k] = value

\* an edit of the name to a one-character text was refused and the name the
\* accumulator holds is the one committed before
C26_Witness ==
    /\ toast = errorToast
    /\ editingMessageId # Null
    /\ Len(Trim(editValue)) = 1
    /\ \E i \in UserMessages : InEditMode(i) /\ messages[i].questionIndex = 0
    /\ 0 \in HeldSlots
    /\ Len(userData["name"]) >= 2

\* the value meets the constraint of slot s
ValueValid(s, value) ==
    /\ s = 0 => Len(value) >= 2
    /\ s \in NumericSlots => value \in NumericRange(s)
    /\ s \in EnumeratedSlots => \E k \in DOMAIN OptionSet(s) : OptionSet(s)[k] = value

\* the submissions started by the step
StartedSubmissions == {t \in timers' \ timers : t.kind \in {"fetch", "results"}}

\* C27: the handleSubmit step that sets isComplete starts exactly one
\* submission; the record it hands over has a value for every slot and no
\* other field, each value meets its slot's constraint, the values of the
\* earlier slots are those the accumulator held before the step (as left by
\* the answers and the saved edits), the value of the last slot is the one
\* computed from the final answer, and the record is the accumulator after
\* the step.
C27_RecordIsAccumulator ==
    [][(handleSubmit /\ ~isComplete /\ isComplete')
          => /\ Cardinality(StartedSubmissions) = 1
             /\ \A t \in StartedSubmissions :
                   /\ t.data = userData'
                   /\ DOMAIN t.data = {fields[s + 1] : s \in Slots}
                   /\ \A s \in Slots :
                         /\ ValueValid(s, t.data[fields[s + 1]])
                         /\ s < Len(fields) - 1
                               => /\ fields[s + 1] \in DOMAIN userData
                                  /\ t.data[fields[s + 1]] = userData[fields[s + 1]]
                   /\ LET value == t.data[fields[Len(fields)]]
                      IN  IF Len(fields) - 1 \in NumericSlots
                          THEN IsIntegerNumeral(Trim(currentInput))
                                  => value = NumeralValue(Trim(currentInput))
                          ELSE value = Trim(currentInput)]_vars

\* a submission is pending in a conversation in which an answer was edited,
\* and it carries the accumulator
C27_Witness ==
    /\ edits > 0
    /\ editingMessageId = Null
    /\ isComplete
    /\ PendingSubmissions # {}
    /\ \A t \in PendingSubmissions :
          /\ t.data = userData
          /\ \A i \in UserMessages :
                t.data[fields[messages[i].questionIndex + 1]]
                    = processValue(messages[i].content, messages[i].questionIndex)

\* the positions of the messages rendered in edit mode
EditModeMessages == {i \in DOMAIN messages : InEditMode(i)}

\* C28: at most one message is rendered in edit mode; and a handleEdit step
\* taken while an edit session is open moves the session to the message
\* clicked, replaces the text of the edit box by that message's text and
\* changes neither the log nor the accumulator.
C28_OneEditSession ==
    /\ [](Cardinality(EditModeMessages) <= 1)
    /\ [][\A i \in DOMAIN messages :
             (handleEdit(i) /\ editingMessageId # Null)
                 => /\ editingMessageId' = messages[i].id
                    /\ editValue' = messages[i].content
                    /\ messages' = messages
                    /\ userData' = userData]_vars

\* C29: onSubmit is only started with values whose maximum salary is at least
\* the minimum salary, both at least 0, and every job posted has such
\* salaries; a form whose maximum is below its minimum is never handed to
\* onSubmit.
C29_SalaryRange ==
    /\ [][\A t \in jobForm'.pending \ jobForm.pending :
             t.kind = "onSubmit"
                 => /\ t.data = jobForm.values
                    /\ t.data.salaryMin >= 0
                    /\ t.data.salaryMax >= t.data.salaryMin]_vars
    /\ [](jobForm.posted > 0
             => /\ jobForm.jobData.salaryMin >= 0
                /\ jobForm.jobData.salaryMax >= jobForm.jobData.salaryMin)

\* a job whose two salaries are equal was posted, and the form now holds a
\* maximum below the minimum, which the Post Job button refuses
C29_Witness ==
    /\ jobForm.posted > 0
    /\ jobForm.jobData.salaryMin = 1000
    /\ jobForm.jobData.salaryMax = 1000
    /\ jobForm.values.otherFields
    /\ jobForm.values.salaryMin = 2000
    /\ jobForm.values.salaryMax = 1000
    /\ ~ENABLED submitJob

\* the positions of the answers to slot s on the log
AnswersTo(s) == {i \in UserMessages : messages[i].questionIndex = s}

\* the slots that count as answered at the current index
AnsweredSlots == IF isComplete THEN Slots ELSE {s \in Slots : s < currentQuestionIndex}

\* C30: the accumulator holds slot s exactly when the log has exactly one
\* answer to slot s, and the slots held are those below currentQuestionIndex,
\* or all slots once isComplete is set.
C30_LogAndAccumulatorAgree ==
    /\ \A s \in Slots : s \in HeldSlots <=> Cardinality(AnswersTo(s)) = 1
    /\ HeldSlots = AnsweredSlots

\* C31: currentQuestionIndex is always the index of a question, every answer
\* on the log carries the index of a question (the index saveEdit validates
\* and processes with), and the handleSubmit step that commits the answer
\* to the last question leaves the index where it is.
C31_IndexInRange ==
    /\ [](/\ currentQuestionIndex \in 0..(Len(questions) - 1)
          /\ \A i \in UserMessages : messages[i].questionIndex \in 0..(Len(questions) - 1))
    /\ [][(handleSubmit /\ currentQuestionIndex = Len(questions) - 1)
             => currentQuestionIndex' = currentQuestionIndex]_vars

\* the answer to the last question is committed and the index is still the
\* index of the last question
C31_Witness ==
    /\ isComplete
    /\ currentQuestionIndex = Len(questions) - 1
    /\ AnswersTo(Len(questions) - 1) # {}

\* the text consists of commas and white space only
OnlySeparators(text) == \A i \in DOMAIN text : text[i] = "," \/ IsSpace(text[i])

\* C32: whenever the accumulator holds the skills slot, its list has at least
\* one skill.
C32_SkillsNonEmpty ==
    "skills" \in DOMAIN userData => Len(userData["skills"]) >= 1

\* C32 as amended: whenever the accumulator holds the skills slot, every
\* entry of its list is a non-empty text without white space around it; and
\* a handleSubmit step that accepts a skills answer commits an empty list
\* exactly when the answer consists of commas and white space only.
C32_SkillsEntries ==
    /\ []("skills" \in DOMAIN userData
             => \A k \in DOMAIN userData["skills"] :
                   /\ userData["skills"][k] # <<>>
                   /\ Trim(userData["skills"][k]) = userData["skills"][k])
    /\ [][(handleSubmit /\ currentQuestionIndex = SkillsSlot /\ AnswerAccepted)
             => /\ "skills" \in DOMAIN userData'
                /\ Len(userData'["skills"]) = 0 <=> OnlySeparators(currentInput)]_vars

\* an answer of a single comma is on the log and the skills list is empty
C32_Witness ==
    /\ "skills" \in DOMAIN userData
    /\ userData["skills"] = <<>>
    /\ \E i \in AnswersTo(SkillsSlot) : messages[i].content = tComma

\* C33: in the second component the option buttons are on the screen only
\* while the current slot is the certification slot or the proficiency slot,
\* and the options offered are those of that slot.
C33_OptionsOnlyAtTheirSlot ==
    (variant = "B" /\ showOptions /\ ~isComplete)
        => /\ currentQuestionIndex \in EnumeratedSlots
           /\ OptionButtons = OptionSet(currentQuestionIndex)

\* C34: no handleSubmit step is taken while isTyping is set, so no answer is
\* committed then; and whenever isTyping is set it is cleared again later.
C34_TypingEnds ==
    /\ [][isTyping => ~handleSubmit]_vars
    /\ isTyping ~> ~isTyping

\* the typing indicator is on while the answer box holds a text typed
\* before: the text cannot be sent
C34_Witness ==
    /\ isTyping
    /\ Trim(currentInput) # <<>>
    /\ validateResponse(currentInput, currentQuestionIndex)
    /\ ~isComplete
    /\ ~ENABLED handleSubmit

\* C35: a cancelEdit step closes the edit session (no message is in edit
\* mode afterwards, the edit box is emptied) and changes neither the log, nor
\* the accumulator, nor currentQuestionIndex, nor the text in the answer box.
C35_CancelChangesNothing ==
    [][cancelEdit
          => /\ editingMessageId' = Null
             /\ editValue' = <<>>
             /\ \A i \in DOMAIN messages' : messages'[i].id # editingMessageId'
             /\ messages' = messages
             /\ userData' = userData
             /\ currentQuestionIndex' = currentQuestionIndex
             /\ currentInput' = currentInput]_vars

\* an edit session was closed without a save while a text waits in the
\* answer box: the answers on the log are those the accumulator holds
C35_Witness ==
    /\ edits > 0
    /\ editingMessageId = Null
    /\ editValue = <<>>
    /\ currentInput # <<>>
    /\ UserMessages # {}
    /\ \A i \in UserMessages :
          userData[fields[messages[i].questionIndex + 1]]
              = processValue(messages[i].content, messages[i].questionIndex)

\* C36: a handleOptionSelect step puts the option into the answer box, hides
\* the buttons and changes neither the log, nor the accumulator, nor
\* currentQuestionIndex; and a step that appends an answer to the log is a
\* handleSubmit step whose text, the content of the answer box, passes
\* validateResponse for the index current at that step.
C36_OptionOnlyFillsInput ==
    [][/\ \A option \in ClickedOptions :
             handleOptionSelect(option)
                 => /\ currentInput' = option
                    /\ ~showOptions'
                    /\ OptionButtons' = <<>>
                    /\ messages' = messages
                    /\ userData' = userData
                    /\ currentQuestionIndex' = currentQuestionIndex
       /\ (\E i \in DOMAIN messages' :
               /\ i > Len(messages)
               /\ messages'[i].type = "user")
             => /\ handleSubmit
                /\ validateResponse(currentInput, currentQuestionIndex)
                /\ messages'[Len(messages')].content = currentInput
                /\ messages'[Len(messages')].questionIndex = currentQuestionIndex]_vars

\* the option None, which the user of this model never types, is in the
\* answer box, not yet sent, and the buttons are hidden
C36_Witness ==
    /\ variant = "B"
    /\ currentInput = tNone
    /\ ~showOptions
    /\ currentQuestionIndex = 4
    /\ AnswersTo(4) = {}
    /\ "certificationLevel" \notin DOMAIN userData

\* no interval of the upload is running
UploadSettled == profileForm.intervals = <<>>

\* C37: the progress of the simulated upload stays within 0..100, and once
\* every interval of the upload has been cleared, the file that is shown as
\* uploaded is the valid file that was selected last.
C37_UploadKeepsLastFile ==
    /\ profileForm.uploadProgress \in 0..uploadDone
    /\ (UploadSettled /\ profileForm.uploadedFile # NoFile)
          => profileForm.uploadedFile = profileForm.selected

\* C38: a dispatched SET_ERROR leaves loading false and the user as it was,
\* SET_USER leaves the error null and loading as it was, LOGOUT leaves the
\* user null and loading and the error as they were, and an action of a
\* type the reducer does not know leaves the whole state as it was.
C38_ReducerCases ==
    [][\A action \in AppActions :
          dispatch(action)
              => /\ action.type = "SET_ERROR"
                    => /\ app'.state.loading = FALSE
                       /\ app'.state.user = app.state.user
                 /\ action.type = "SET_USER"
                    => /\ app'.state.error = NoError
                       /\ app'.state.loading = app.state.loading
                 /\ action.type = "LOGOUT"
                    => /\ app'.state.user = NoUser
                       /\ app'.state.loading = app.state.loading
                       /\ app'.state.error = app.state.error
                 /\ action.type \notin {"SET_USER", "SET_LOADING", "SET_ERROR", "LOGOUT"}
                    => app'.state = app.state]_vars

\* LOGOUT was dispatched while the state was loading and held an error
C38_Witness ==
    /\ app.dispatched.type = "LOGOUT"
    /\ app.state.user = NoUser
    /\ app.state.loading
    /\ app.state.error \in Errors

=============================================================================
